---- MODULE Spec2Model ----
(***************************************************************************)
(* Drug-info backend: the record store (file-backed FileDatabase or the    *)
(* mongoose Drug collection) and the REST handlers that read it; and the   *)
(* React client (App, CompanyFilter, DrugTable) that talks to them.        *)
(* Spec is the server under arbitrary requests, ClientSpec one mounted App *)
(* in front of a file-backed server whose store stays as seeded.           *)
(*                                                                         *)
(* Strings are sequences of UTF-16 code units, so that trim(), `>`,        *)
(* localeCompare() and template literals are modelled by what they do.     *)
(* A launch date string "2004-02-DDTHH:00:00+OO:00" is the record          *)
(* [day, hour, off]; its instant is counted in hours.                      *)
(***************************************************************************)
EXTENDS Integers, Sequences, FiniteSets, TLC

VARIABLES backend, data, clock, oid, res, app, run, net, trace

\* The server's variables, and the client's: the useState values as of the
\* last commit (app), what lives outside of React state (run: the ref, the
\* passive effects not yet flushed, where loadInitialData stands), the
\* requests on the wire (net), and a record of what has happened (trace).
server == <<backend, data, clock, oid, res>>
client == <<app, run, net, trace>>
vars == <<backend, data, clock, oid, res, app, run, net, trace>>

(* ------------------------------ bounds -------------------------------- *)

\* Largest number of records the store holds.
MaxDocs == 3

\* Page numbers a list request asks for, besides the default.
PageChoices == {1, 2, 3}
\* Largest number of ObjectIds the database driver hands out.
MaxOid == 4

\* Sizes of the batches handed to one insertMany call.
BatchSizes == {1, 2}
\* Values Date.now() takes (milliseconds since the server started).
Times == {0, 1}
\* Page sizes a list request asks for, besides the default.
LimitChoices == {1, 2}

(* ------------------------------ strings ------------------------------- *)

Min(a, b) == IF a < b THEN a ELSE b
Max(a, b) == IF a > b THEN a ELSE b

\* code units: " " 32, "(" 40, ")" 41, "0".."9" 48..57, "A" 65, "B" 66, "a" 97, "b" 98
S_empty == << >>
S_space == <<32>>
S_A == <<65>>
S_Ab == <<65, 98>>
S_ab == <<97, 98>>
S_B == <<66>>

\* JS relational `a > b` on two strings: lexicographic on code units.
RECURSIVE StrGT(_, _)
StrGT(a, b) ==
  IF a = << >> THEN FALSE
  ELSE IF b = << >> THEN TRUE
  ELSE IF Head(a) # Head(b) THEN Head(a) > Head(b)
  ELSE StrGT(Tail(a), Tail(b))

\* String.prototype.trim: white space stripped from both ends.
RECURSIVE TrimStart(_)
TrimStart(s) == IF s # << >> /\ Head(s) = 32 THEN TrimStart(Tail(s)) ELSE s

RECURSIVE TrimEnd(_)
TrimEnd(s) ==
  IF s # << >> /\ s[Len(s)] = 32 THEN TrimEnd(SubSeq(s, 1, Len(s) - 1)) ELSE s

Trim(s) == TrimEnd(TrimStart(s))

\* parseInt on a decimal numeral.
RECURSIVE ParseInt(_)
ParseInt(s) ==
  IF s = << >> THEN 0 ELSE 10 * ParseInt(SubSeq(s, 1, Len(s) - 1)) + (s[Len(s)] - 48)

\* The decimal numeral of n >= 0, as a query string carries it.
RECURSIVE Numeral(_)
Numeral(n) == IF n < 10 THEN <<48 + n>> ELSE Numeral(n \div 10) \o <<48 + (n % 10)>>

\* An optional query parameter.
Absent == [present |-> FALSE, value |-> << >>]
Given(s) == [present |-> TRUE, value |-> s]

(* ------------------------------- dates -------------------------------- *)

\* new Date(str).getTime(), in hours.
NewDate(d) == d.day * 24 + d.hour - d.off

\* Date.prototype.toISOString (what a stored Date serialises to): UTC.
ToISO(t) == [day |-> t \div 24, hour |-> t % 24, off |-> 0]

T_14_23_Z == [day |-> 14, hour |-> 23, off |-> 0]
T_15_01_P3 == [day |-> 15, hour |-> 1, off |-> 3]
T_16_00_Z == [day |-> 16, hour |-> 0, off |-> 0]

(* ---------------------------- input records --------------------------- *)

Doc(c, g, b, co, d) ==
  [code |-> c, genericName |-> g, brandName |-> b, company |-> co, launchDate |-> d]

\* The documents the import file and the request bodies draw from. The first
\* two share a company; the second is launched before the first although its
\* date text sorts after it; "B" sorts before "ab" by code unit and after it
\* when letter case is ignored.
Catalogue ==
  { Doc(<<49>>, S_ab, S_A, S_ab, T_14_23_Z),
    Doc(<<50>>, S_B, S_B, S_ab, T_15_01_P3),
    Doc(<<51>>, S_A, S_ab, S_B, T_16_00_Z) }

Batches == UNION { [1..k -> Catalogue] : k \in BatchSizes }

(* ------------------------------ the store ----------------------------- *)

\* useState(...) of App: the values of the first render.
NoConfig == [loaded |-> FALSE, pagination |-> [defaultPageSize |-> 0]]
AppInitial ==
  [drugs |-> << >>, companies |-> << >>, tableConfig |-> NoConfig,
   selectedCompany |-> S_empty, loading |-> TRUE, error |-> "",
   currentPage |-> 1, totalPages |-> 1, totalCount |-> 0,
   initialLoadComplete |-> FALSE]

\* Outside of React state: initialLoadRef, the passive effects of the last
\* commit that have not run yet, and the Promise.all of loadInitialData
\* (what each member has settled to, and whether the function is still
\* waiting for it).
RunInitial ==
  [initialLoadRef |-> FALSE, effects |-> "mount", initial |-> "idle",
   config |-> NoConfig, companies |-> [settled |-> FALSE, value |-> << >>]]

\* What has happened so far: how often each service function was called,
\* the last two getDrugs calls and what caused the last one, the last click,
\* the call whose response the rows on the screen came from and the
\* highest-numbered call whose response has been applied, which call
\* settled last and how, what the last successful response held, and the
\* error message the start of the last click's getDrugs call took away.
NoRequest == [seq |-> 0]
NoEvent == [kind |-> "none"]
TraceInitial ==
  [configCalls |-> 0, companiesCalls |-> 0, issued |-> 0,
   last |-> NoRequest, prev |-> NoRequest, cause |-> "none", event |-> NoEvent,
   applied |-> NoRequest, newest |-> 0, settled |-> [how |-> "none", seq |-> 0],
   good |-> [drugs |-> << >>, totalPages |-> 1, totalCount |-> 0], cleared |-> ""]

\* server.js mounts the mongoose routes, serverFile.js the file-backed ones.
Backends == {"file", "mongo"}

\* No request is being served: Node runs one handler at a time, to completion.
NoResponse == [kind |-> "none", status |-> 0]
Idle == res = NoResponse

Init ==
  /\ backend \in Backends
  /\ data = << >>
  /\ clock = 0
  /\ oid = 0
  /\ res = NoResponse
  /\ app = AppInitial
  /\ run = RunInitial
  /\ net = {}
  /\ trace = TraceInitial

\* `drug_${Date.now()}_${index}`
FileId(now, index) == <<100, 114, 117, 103, 95>> \o Numeral(now) \o <<95>> \o Numeral(index)

\* FileDatabase.insertMany, the forEach: every document gets its _id and the
\* two timestamps.
FileStamp(docs, now) ==
  [i \in 1..Len(docs) |->
     [code |-> docs[i].code, genericName |-> docs[i].genericName,
      brandName |-> docs[i].brandName, company |-> docs[i].company,
      launchDate |-> docs[i].launchDate,
      _id |-> FileId(now, i - 1), createdAt |-> now, updatedAt |-> now]]

\* FileDatabase.insertMany: the stamped documents are pushed; nothing is
\* compared with what the array holds.
FilePush(docs, now) == data \o FileStamp(docs, now)

FileInsertMany(docs, now) ==
  /\ backend = "file"
  /\ Idle
  /\ Len(data) + Len(docs) <= MaxDocs
  /\ now >= clock
  /\ data' = FilePush(docs, now)
  /\ clock' = now
  /\ UNCHANGED <<backend, oid, res, client>>

\* FileDatabase.deleteMany.
FileDeleteMany ==
  /\ backend = "file"
  /\ Idle
  /\ data' = << >>
  /\ UNCHANGED <<backend, clock, oid, res, client>>

\* An ObjectId as its 24 hexadecimal digits.
ObjectId(n) == [i \in 1..23 |-> 48] \o <<48 + n>>

\* Whether mongoose casts the string to an ObjectId.
IsObjectId(s) ==
  /\ Len(s) = 24
  /\ \A i \in 1..Len(s) : s[i] \in (48..57) \cup (97..102) \cup (65..70)

\* The document the Drug schema stores: launchDate is a Date, which reads
\* back as its UTC form. (createdAt, updatedAt and __v are left out.)
MongoDoc(doc, n) ==
  [code |-> doc.code, genericName |-> doc.genericName, brandName |-> doc.brandName,
   company |-> doc.company, launchDate |-> ToISO(NewDate(doc.launchDate)),
   _id |-> ObjectId(n)]

\* The unique index on code (drugSchema, unique: true) refuses the write.
DuplicateKey(store, doc) == \E i \in 1..Len(store) : store[i].code = doc.code

\* One insert into the collection: the store after it.
MongoInsertOne(store, doc, n) ==
  IF DuplicateKey(store, doc) THEN store ELSE Append(store, MongoDoc(doc, n))

\* Drug.insertMany(batch, {ordered: false}): every document is tried, the
\* ones the unique index refuses are skipped.
RECURSIVE MongoInsertUnordered(_, _, _)
MongoInsertUnordered(store, docs, n) ==
  IF docs = << >> THEN store
  ELSE MongoInsertUnordered(MongoInsertOne(store, Head(docs), n + 1), Tail(docs), n + 1)

\* seedDatabase.js, one batch of the import loop.
MongoInsertMany(docs) ==
  /\ backend = "mongo"
  /\ Idle
  /\ oid + Len(docs) <= MaxOid
  /\ Len(MongoInsertUnordered(data, docs, oid)) <= MaxDocs
  /\ data' = MongoInsertUnordered(data, docs, oid)
  /\ oid' = oid + Len(docs)
  /\ UNCHANGED <<backend, clock, res, client>>

\* seedDatabase.js: Drug.deleteMany({}).
MongoDeleteMany ==
  /\ backend = "mongo"
  /\ Idle
  /\ data' = << >>
  /\ UNCHANGED <<backend, clock, oid, res, client>>

(* ------------------------------- sorting ------------------------------ *)

\* a[sortBy] > b[sortBy] on two records: the strings are compared by code
\* unit; a field a record does not have reads as undefined, and a
\* comparison with undefined is false.
ValueGT(a, b, sortBy) ==
  /\ sortBy \in DOMAIN a
  /\ sortBy \in DOMAIN b
  /\ StrGT(a[sortBy], b[sortBy])

\* Mutant: launch dates compared as text (day, then hour, of the string).
FileCompareText(a, b, sortBy, sortOrder) ==
  LET gt(x, y) == IF sortBy = "launchDate"
                  THEN StrGT(<<x.launchDate.day, x.launchDate.hour>>,
                             <<y.launchDate.day, y.launchDate.hour>>)
                  ELSE ValueGT(x, y, sortBy)
  IN IF sortOrder = "desc"
     THEN (IF gt(b, a) THEN 1 ELSE -1)
     ELSE (IF gt(a, b) THEN 1 ELSE -1)

\* The comparator handed to drugs.sort by the file-backed list handler.
FileCompare(a, b, sortBy, sortOrder) ==
  IF sortBy = "launchDate"
  THEN IF sortOrder = "desc"
       THEN NewDate(b.launchDate) - NewDate(a.launchDate)
       ELSE NewDate(a.launchDate) - NewDate(b.launchDate)
  ELSE IF sortOrder = "desc"
       THEN (IF ValueGT(b, a, sortBy) THEN 1 ELSE -1)
       ELSE (IF ValueGT(a, b, sortBy) THEN 1 ELSE -1)

\* How the database orders two documents under sort[sortBy] = -1 or 1:
\* dates by instant, strings by code unit; documents that lack the field
\* (a virtual is not stored) all count as equal.
MongoCompare(a, b, sortBy, sortOrder) ==
  LET lt == IF sortBy = "launchDate"
            THEN NewDate(a.launchDate) < NewDate(b.launchDate)
            ELSE ValueGT(b, a, sortBy)
      gt == IF sortBy = "launchDate"
            THEN NewDate(a.launchDate) > NewDate(b.launchDate)
            ELSE ValueGT(a, b, sortBy)
      asc == IF lt THEN -1 ELSE IF gt THEN 1 ELSE 0
  IN IF sortOrder = "desc" THEN -asc ELSE asc

\* Letter case folded away (sensitivity: 'base').
Fold(c) == IF c \in 65..90 THEN c + 32 ELSE c

\* a.localeCompare(b, undefined, {sensitivity: 'base'}) on letters.
RECURSIVE LocaleCompare(_, _)
LocaleCompare(a, b) ==
  IF a = << >> /\ b = << >> THEN 0
  ELSE IF a = << >> THEN -1
  ELSE IF b = << >> THEN 1
  ELSE IF Fold(Head(a)) < Fold(Head(b)) THEN -1
  ELSE IF Fold(Head(a)) > Fold(Head(b)) THEN 1
  ELSE LocaleCompare(Tail(a), Tail(b))

\* Mutant: the default sort order, by code unit.
CompaniesCompareCodeUnit(a, b) == IF StrGT(a, b) THEN 1 ELSE IF StrGT(b, a) THEN -1 ELSE 0

\* The comparator of the company listing.
CompaniesCompare(a, b) == LocaleCompare(a, b)

\* Mutant: ascending, a.drugCount - b.drugCount.
StatsCompareAscending(a, b) == a.drugCount - b.drugCount

\* The comparator of the statistics: (a, b) => b.drugCount - a.drugCount.
StatsCompare(a, b) == b.drugCount - a.drugCount

\* The comparator a sort runs under.
Compare(a, b, by) ==
  CASE by.cmp = "file" -> FileCompare(a, b, by.sortBy, by.sortOrder)
    [] by.cmp = "mongo" -> MongoCompare(a, b, by.sortBy, by.sortOrder)
    [] by.cmp = "companies" -> CompaniesCompare(a, b)
    [] by.cmp = "stats" -> StatsCompare(a, b)
    [] by.cmp = "mongo-distinct" -> 0

InsertAt(s, k, x) == SubSeq(s, 1, k) \o <<x>> \o SubSeq(s, k + 1, Len(s))

\* The places where x, which followed every element of s in the input, may
\* stand among them: after what the comparator puts before it or calls equal
\* (0), and before what the comparator puts after it. A sort that is not
\* stable may also put it before what the comparator calls equal.
Places(s, x, by) ==
  { k \in 0..Len(s) :
      /\ \A i \in 1..k : Compare(s[i], x, by) <= 0
      /\ \A i \in (k + 1)..Len(s) :
           \/ Compare(x, s[i], by) < 0
           \/ ~by.stable /\ Compare(x, s[i], by) = 0 }

\* The results a sort may give. Elements the comparator orders come out in
\* that order; elements it calls equal keep their order under a stable sort
\* (Array.prototype.sort) and come out in any order otherwise (a database
\* sort); where the comparator answers "less" both ways round, either order
\* may come out.
RECURSIVE SortPrefix(_, _, _)
SortPrefix(list, m, by) ==
  IF m = 0 THEN { << >> }
  ELSE UNION { { InsertAt(s, k, list[m]) : k \in Places(s, list[m], by) } :
               s \in SortPrefix(list, m - 1, by) }

ArraySort(list, by) == SortPrefix(list, Len(list), by)

(* ---------------------------- GET /api/drugs -------------------------- *)

SortFields == {"launchDate", "code", "company"}
SortOrders == {"desc", "asc"}

\* Default of the `limit` query parameter.
DefaultLimit == 50
\* Default of the `page` query parameter.
DefaultPage == 1

\* Mutant: find() forgets the filter.
FindIgnoresFilter(filter) == data

\* Mutant: the parameter is not trimmed before it is tested.
BuildFilterNoTrim(company) ==
  IF company.present /\ company.value # << >> THEN Given(company.value) ELSE Absent

\* Build filter object: the company is kept when it is truthy and not blank
\* after trim(); the value kept is the untrimmed one.
BuildFilter(company) ==
  IF company.present /\ company.value # << >> /\ Trim(company.value) # << >>
  THEN Given(company.value)
  ELSE Absent

\* FileDatabase.find and Drug.find: the records of the store, those of the
\* company when the filter names one.
Find(filter) ==
  IF filter.present /\ filter.value # << >>
  THEN SelectSeq(data, LAMBDA item : item.company = filter.value)
  ELSE data

\* Array.prototype.slice(start, end) for 0 <= start <= end; the cursor's
\* skip(start).limit(end - start).
Slice(list, start, end) ==
  IF start >= Len(list) THEN << >> ELSE SubSeq(list, start + 1, Min(end, Len(list)))

\* Math.ceil(n / d) for n >= 0, d >= 1.
Ceil(n, d) == IF n % d = 0 THEN n \div d ELSE (n \div d) + 1

\* Mutant: the two names the other way round.
DisplayNameBrandFirst(drug) == drug.brandName \o <<32, 40>> \o drug.genericName \o <<41>>

\* `${drug.genericName} (${drug.brandName})`
DisplayName(drug) == drug.genericName \o <<32, 40>> \o drug.brandName \o <<41>>

\* { ...drug, <extra fields> }
Spread(drug, extra) ==
  [k \in DOMAIN drug \cup DOMAIN extra |-> IF k \in DOMAIN extra THEN extra[k] ELSE drug[k]]

\* Mutant: the page's own index, the skip forgotten.
SequentialIdFromOne(skip, index) == index + 1

\* sequentialId of the record at `index` (0-based) of the page.
SequentialId(skip, index) == skip + index + 1

\* The map over the page: id, displayName and sequentialId are added.
WithDisplayInfo(page, skip) ==
  [i \in 1..Len(page) |->
     Spread(page[i], [id |-> page[i]._id, displayName |-> DisplayName(page[i]),
                      sequentialId |-> SequentialId(skip, i - 1)])]

PageOf(page) == IF page.present THEN ParseInt(page.value) ELSE DefaultPage
LimitOf(limit) == IF limit.present THEN ParseInt(limit.value) ELSE DefaultLimit

\* Mutant: page * limit, the "- 1" forgotten.
SkipFromPage(page, limit) == page * limit

\* startIndex of the file-backed handler, skip of the database-backed one.
Skip(page, limit) == (page - 1) * limit

\* Mutant: the records skipped are not counted.
MongoHasNextNoSkip(skip, returned, totalCount) == returned < totalCount

\* Mutant: off by one, endIndex <= totalCount.
FileHasNextInclusive(endIndex, totalCount) == endIndex <= totalCount

\* hasNextPage of the file-backed handler: endIndex < totalCount.
FileHasNext(endIndex, totalCount) == endIndex < totalCount

\* hasNextPage of the database-backed handler: skip + drugs.length < totalCount.
MongoHasNext(skip, returned, totalCount) == skip + returned < totalCount

\* totalPages of both handlers.
TotalPages(totalCount, limit) == Ceil(totalCount, limit)

\* hasPrevPage of both handlers.
HasPrev(page) == page > 1

ListResponse(r, sorted, paginated, hasNext) ==
  [kind |-> "list", status |-> 200,
   req |-> [company |-> r.company, page |-> PageOf(r.page), limit |-> LimitOf(r.limit),
            sortBy |-> r.sortBy, sortOrder |-> r.sortOrder],
   sorted |-> sorted,
   drugs |-> WithDisplayInfo(paginated, Skip(PageOf(r.page), LimitOf(r.limit))),
   pagination |-> [currentPage |-> PageOf(r.page),
                   totalPages |-> TotalPages(Len(sorted), LimitOf(r.limit)),
                   totalCount |-> Len(sorted),
                   hasNextPage |-> hasNext,
                   hasPrevPage |-> HasPrev(PageOf(r.page))]]

NotFoundStatus == 404
ServerErrorStatus == 500

\* Mutant: the catch passes the store's message on.
ListFaultWithDetail(r, at) ==
  [kind |-> "fault", status |-> 500, company |-> r.company, at |-> at,
   body |-> [error |-> "Failed to fetch drugs", message |-> at]]

\* The catch of both list handlers: whatever was thrown, the body is the
\* one generic message. `at` keeps the store call that threw and `company`
\* the filter that was asked for.
ListFault(r, at) ==
  [kind |-> "fault", status |-> ServerErrorStatus, company |-> r.company, at |-> at,
   body |-> [error |-> "Failed to fetch drugs"]]

\* The store calls of the list handlers, each of which may throw.
FileStoreCalls == {"find"}
MongoStoreCalls == {"find", "countDocuments"}

\* Mutant: find() hands out the store's own array, which sort() then
\* reorders.
FileStoreAfterSortShared(filter, sorted) ==
  IF filter.present THEN data ELSE sorted

\* The store after the handler sorted what find() returned: find() copies
\* the array ([...this.data]), so the sort leaves the store as it was.
FileStoreAfterSort(filter, sorted) == data

\* router.get('/') of routes/drugsFile.js. `sorted` keeps the whole sorted
\* array the page was cut from.
FileGetDrugs(r) ==
  /\ backend = "file"
  /\ Idle
  /\ \/ \E drugs \in ArraySort(Find(BuildFilter(r.company)),
                               [cmp |-> "file", stable |-> TRUE,
                                sortBy |-> r.sortBy, sortOrder |-> r.sortOrder]) :
          LET startIndex == Skip(PageOf(r.page), LimitOf(r.limit))
              endIndex == startIndex + LimitOf(r.limit)
          IN /\ res' = ListResponse(r, drugs, Slice(drugs, startIndex, endIndex),
                                    FileHasNext(endIndex, Len(drugs)))
             /\ data' = FileStoreAfterSort(BuildFilter(r.company), drugs)
     \/ \E at \in FileStoreCalls :
          /\ res' = ListFault(r, at)
          /\ data' = data
  /\ UNCHANGED <<backend, clock, oid, client>>

\* The 200 responses of the database-backed GET /api/drugs to a query: the
\* database sorts, skips and limits.
MongoListAnswers(r) ==
  { LET skip == Skip(PageOf(r.page), LimitOf(r.limit))
        drugs == Slice(cursor, skip, skip + LimitOf(r.limit))
    IN ListResponse(r, cursor, drugs, MongoHasNext(skip, Len(drugs), Len(cursor))) :
      cursor \in ArraySort(Find(BuildFilter(r.company)),
                           [cmp |-> "mongo", stable |-> FALSE,
                            sortBy |-> r.sortBy, sortOrder |-> r.sortOrder]) }

\* router.get('/') of routes/drugs.js.
MongoGetDrugs(r) ==
  /\ backend = "mongo"
  /\ Idle
  /\ \/ \E response \in MongoListAnswers(r) : res' = response
     \/ \E at \in MongoStoreCalls : res' = ListFault(r, at)
  /\ UNCHANGED <<backend, data, clock, oid, client>>

(* -------------------------- GET /api/drugs/:id ------------------------ *)

\* FileDatabase.findById: the first record with that _id, or none.
FindById(id) ==
  IF \E i \in 1..Len(data) : data[i]._id = id
  THEN << data[CHOOSE i \in 1..Len(data) :
                 /\ data[i]._id = id
                 /\ \A j \in 1..(i - 1) : data[j]._id # id] >>
  ELSE << >>

\* The body of a found record: { ...drug, id, displayName }.
DrugBody(drug) == Spread(drug, [id |-> drug._id, displayName |-> DisplayName(drug)])

DrugResponse(id, found) ==
  IF found = << >>
  THEN [kind |-> "drug", status |-> NotFoundStatus, req |-> [id |-> id],
        body |-> [error |-> "Drug not found"]]
  ELSE [kind |-> "drug", status |-> 200, req |-> [id |-> id],
        body |-> DrugBody(found[1])]

\* router.get('/:id') of routes/drugsFile.js.
FileGetDrug(id) ==
  /\ backend = "file"
  /\ Idle
  /\ res' = DrugResponse(id, FindById(id))
  /\ UNCHANGED <<backend, data, clock, oid, client>>

\* router.get('/:id') of routes/drugs.js: Drug.findById throws a CastError
\* for a string that is no ObjectId, and the catch answers 500.
MongoGetDrug(id) ==
  /\ backend = "mongo"
  /\ Idle
  /\ res' = IF IsObjectId(id)
            THEN DrugResponse(id, FindById(id))
            ELSE [kind |-> "drug", status |-> ServerErrorStatus, req |-> [id |-> id],
                  body |-> [error |-> "Failed to fetch drug"]]
  /\ UNCHANGED <<backend, data, clock, oid, client>>

(* --------------------------- POST /api/drugs -------------------------- *)

\* serverFile.js mounts routes/drugsFile.js, which has no POST route: the
\* request falls through to the 404 handler.
FilePostDrug(doc) ==
  /\ backend = "file"
  /\ Idle
  /\ res' = [kind |-> "post", status |-> NotFoundStatus, req |-> doc, before |-> data,
             body |-> [error |-> "Route not found"]]
  /\ UNCHANGED <<backend, data, clock, oid, client>>

\* router.post('/') of routes/drugs.js: save() fails with code 11000 on a
\* duplicate code and the catch answers 400. `before` keeps the store the
\* request found.
MongoPostDrug(doc) ==
  /\ backend = "mongo"
  /\ Idle
  /\ oid < MaxOid
  /\ DuplicateKey(data, doc) \/ Len(data) < MaxDocs
  /\ data' = MongoInsertOne(data, doc, oid + 1)
  /\ oid' = oid + 1
  /\ res' = IF DuplicateKey(data, doc)
            THEN [kind |-> "post", status |-> 400, req |-> doc, before |-> data,
                  body |-> [error |-> "Drug code already exists"]]
            ELSE [kind |-> "post", status |-> 201, req |-> doc, before |-> data,
                  body |-> Spread(MongoDoc(doc, oid + 1),
                                  [id |-> ObjectId(oid + 1),
                                   displayName |-> DisplayName(doc)])]
  /\ UNCHANGED <<backend, clock, client>>

(* --------------------------- GET /api/companies ----------------------- *)

\* [...new Set(values)]: each value once, in the order of first appearance.
RECURSIVE Dedupe(_)
Dedupe(values) ==
  IF values = << >> THEN << >>
  ELSE LET front == Dedupe(SubSeq(values, 1, Len(values) - 1))
           last == values[Len(values)]
       IN IF \E i \in 1..Len(front) : front[i] = last THEN front ELSE Append(front, last)

\* FileDatabase.distinct('company').
Distinct == Dedupe([i \in 1..Len(data) |-> data[i].company])

\* Drug.distinct('company'): the distinct values, in an order the database
\* chooses.
MongoDistinct == ArraySort(Distinct, [cmp |-> "mongo-distinct", stable |-> FALSE])

CompaniesResponse(sortedCompanies) ==
  [kind |-> "companies", status |-> 200, companies |-> sortedCompanies]

\* router.get('/') of routes/companiesFile.js.
FileGetCompanies ==
  /\ backend = "file"
  /\ Idle
  /\ \E sortedCompanies \in ArraySort(Distinct, [cmp |-> "companies", stable |-> TRUE]) :
       res' = CompaniesResponse(sortedCompanies)
  /\ UNCHANGED <<backend, data, clock, oid, client>>

\* router.get('/') of routes/companies.js.
MongoGetCompanies ==
  /\ backend = "mongo"
  /\ Idle
  /\ \E companies \in MongoDistinct :
       \E sortedCompanies \in ArraySort(companies, [cmp |-> "companies", stable |-> TRUE]) :
         res' = CompaniesResponse(sortedCompanies)
  /\ UNCHANGED <<backend, data, clock, oid, client>>

(* ------------------------ GET /api/companies/stats -------------------- *)

\* FileDatabase.aggregate, one turn of the forEach: the company's entry is
\* created on its first record, then counted and widened.
AddToStats(stats, drug) ==
  LET launchDate == NewDate(drug.launchDate)
      known == \E i \in 1..Len(stats) : stats[i]._id = drug.company
      started == IF known THEN stats
                 ELSE Append(stats, [_id |-> drug.company, drugCount |-> 0,
                                     latestLaunch |-> launchDate,
                                     earliestLaunch |-> launchDate])
  IN [i \in 1..Len(started) |->
        IF started[i]._id = drug.company
        THEN [_id |-> started[i]._id,
              drugCount |-> started[i].drugCount + 1,
              latestLaunch |-> IF launchDate > started[i].latestLaunch
                               THEN launchDate ELSE started[i].latestLaunch,
              earliestLaunch |-> IF launchDate < started[i].earliestLaunch
                                 THEN launchDate ELSE started[i].earliestLaunch]
        ELSE started[i]]

\* Object.values(companyStats) after the forEach over the first n records.
RECURSIVE CompanyStats(_)
CompanyStats(n) == IF n = 0 THEN << >> ELSE AddToStats(CompanyStats(n - 1), data[n])

\* The Date fields as JSON carries them.
StatsJson(stats) ==
  [i \in 1..Len(stats) |->
     [_id |-> stats[i]._id, drugCount |-> stats[i].drugCount,
      latestLaunch |-> ToISO(stats[i].latestLaunch),
      earliestLaunch |-> ToISO(stats[i].earliestLaunch)]]

StatsResponse(stats) == [kind |-> "stats", status |-> 200, companyStats |-> StatsJson(stats)]

\* router.get('/stats') of routes/companiesFile.js, FileDatabase.aggregate.
FileGetStats ==
  /\ backend = "file"
  /\ Idle
  /\ \E stats \in ArraySort(CompanyStats(Len(data)), [cmp |-> "stats", stable |-> TRUE]) :
       res' = StatsResponse(stats)
  /\ UNCHANGED <<backend, data, clock, oid, client>>

\* router.get('/stats') of routes/companies.js: $group by company, then
\* $sort by drugCount descending, groups of equal count in any order.
MongoGetStats ==
  /\ backend = "mongo"
  /\ Idle
  /\ \E stats \in ArraySort(CompanyStats(Len(data)), [cmp |-> "stats", stable |-> FALSE]) :
       res' = StatsResponse(stats)
  /\ UNCHANGED <<backend, data, clock, oid, client>>

(* ------------------------------ GET /health --------------------------- *)

\* app.get('/health') of serverFile.js: the counts are read from the store,
\* the timestamp from the clock.
HealthStats(now) ==
  [status |-> "OK", timestamp |-> now, database |-> "file-based",
   totalDrugs |-> Len(Find(BuildFilter(Absent))),
   uniqueCompanies |-> Len(Distinct)]

FileGetHealth(now) ==
  /\ backend = "file"
  /\ Idle
  /\ now >= clock
  /\ res' = [kind |-> "health", status |-> 200, body |-> HealthStats(now)]
  /\ clock' = now
  /\ UNCHANGED <<backend, data, oid, client>>

(* ------------------------------ requests ------------------------------ *)

CompanyParams ==
  {Absent, Given(S_empty), Given(S_space), Given(S_ab), Given(S_Ab), Given(S_A)}
PageParams == {Absent} \cup { Given(Numeral(n)) : n \in PageChoices }
LimitParams == {Absent} \cup { Given(Numeral(n)) : n \in LimitChoices }

\* The list requests: every page and page size with and without a company
\* under the default sort field, and every form of the company parameter
\* under every sort.
PagingRequests ==
  [company : {Absent, Given(S_ab)}, page : PageParams, limit : LimitParams,
   sortBy : {"launchDate"}, sortOrder : SortOrders]
FilterRequests ==
  [company : CompanyParams, page : {Absent}, limit : {Absent},
   sortBy : SortFields, sortOrder : SortOrders]
ListRequests == PagingRequests \cup FilterRequests

\* The ids asked for: those the store hands out, and a string that is none.
S_x == <<120>>
FileIdParams == { FileId(t, i) : t \in Times, i \in 0..1 } \cup {S_x}
MongoIdParams == { ObjectId(n) : n \in 1..MaxOid } \cup {S_x}

\* res.json(...) has been written: the request is over.
ResponseSent ==
  /\ ~Idle
  /\ res' = NoResponse
  /\ UNCHANGED <<backend, data, clock, oid, client>>

Next ==
  \/ ResponseSent
  \/ \E docs \in Batches, now \in Times : FileInsertMany(docs, now)
  \/ FileDeleteMany
  \/ \E r \in ListRequests : FileGetDrugs(r)
  \/ \E id \in FileIdParams : FileGetDrug(id)
  \/ \E doc \in Catalogue : FilePostDrug(doc)
  \/ FileGetCompanies
  \/ FileGetStats
  \/ \E now \in Times : FileGetHealth(now)
  \/ \E docs \in Batches : MongoInsertMany(docs)
  \/ MongoDeleteMany
  \/ \E r \in ListRequests : MongoGetDrugs(r)
  \/ \E id \in MongoIdParams : MongoGetDrug(id)
  \/ \E doc \in Catalogue : MongoPostDrug(doc)
  \/ MongoGetCompanies
  \/ MongoGetStats

Spec == Init /\ [][Next]_vars

(* ------------------------------ the client ---------------------------- *)

\* Page sizes GET /api/config announces. routes/config.js announces 50; the
\* model scales the size down so that MaxDocs records fill several pages.
PageSizes == {1, 2}

\* Largest number of getDrugs calls of one session.
MaxRequests == 5

\* What a request that failed settles to (a network error, a timeout or a
\* status the axios interceptor rejects).
Failure == [ok |-> FALSE]

\* drugService.getTableConfig(): the configuration, or a rejection.
ConfigAnswers ==
  { [ok |-> TRUE, config |-> [loaded |-> TRUE, pagination |-> [defaultPageSize |-> n]]] :
      n \in PageSizes } \cup {Failure}

\* drugService.getCompanies(): response.data.companies of the file-backed
\* GET /api/companies, or a rejection.
CompaniesAnswers ==
  { [ok |-> TRUE, companies |-> sortedCompanies] :
      sortedCompanies \in ArraySort(Distinct, [cmp |-> "companies", stable |-> TRUE]) }
    \cup {Failure}

\* axios writes the params into the query string; `company: undefined` is
\* left out.
ToQuery(params) ==
  [company |-> params.company, page |-> Given(Numeral(params.page)),
   limit |-> Given(Numeral(params.limit)),
   sortBy |-> params.sortBy, sortOrder |-> params.sortOrder]

\* The 200 responses of the file-backed GET /api/drugs to a query.
FileListAnswers(r) ==
  { ListResponse(r, drugs,
                 Slice(drugs, Skip(PageOf(r.page), LimitOf(r.limit)),
                       Skip(PageOf(r.page), LimitOf(r.limit)) + LimitOf(r.limit)),
                 FileHasNext(Skip(PageOf(r.page), LimitOf(r.limit)) + LimitOf(r.limit),
                             Len(drugs))) :
      drugs \in ArraySort(Find(BuildFilter(r.company)),
                          [cmp |-> "file", stable |-> TRUE,
                           sortBy |-> r.sortBy, sortOrder |-> r.sortOrder]) }

\* drugService.getDrugs(params): response.data, or a rejection.
ListAnswers(params) ==
  { [ok |-> TRUE, drugs |-> response.drugs, pagination |-> response.pagination] :
      response \in FileListAnswers(ToQuery(params)) } \cup {Failure}

\* configData.pagination.defaultPageSize || 50 (and, with the optional
\* chaining of loadDrugs, 50 when there is no configuration).
PageSizeOr(config) ==
  IF config.pagination.defaultPageSize = 0 THEN DefaultLimit
  ELSE config.pagination.defaultPageSize

\* Mutant: the page size of the configuration is not used.
InitialParamsFixedLimit(configData) ==
  [company |-> Absent, page |-> 1, limit |-> DefaultLimit,
   sortBy |-> "launchDate", sortOrder |-> "desc"]

\* The params of the getDrugs call of loadInitialData.
InitialParams(configData) ==
  [company |-> Absent, page |-> 1, limit |-> PageSizeOr(configData),
   sortBy |-> "launchDate", sortOrder |-> "desc"]

\* Mutant: the filter is not passed on.
LoadParamsNoCompany(a) ==
  [company |-> Absent,
   page |-> a.currentPage, limit |-> PageSizeOr(a.tableConfig),
   sortBy |-> "launchDate", sortOrder |-> "desc"]

\* The params of the getDrugs call of loadDrugs, from the values of the
\* render it was created in: company is selectedCompany || undefined.
LoadParams(a) ==
  [company |-> IF a.selectedCompany = S_empty THEN Absent ELSE Given(a.selectedCompany),
   page |-> a.currentPage, limit |-> PageSizeOr(a.tableConfig),
   sortBy |-> "launchDate", sortOrder |-> "desc"]

\* A getDrugs call on the wire: its number, who awaits it, what it asks.
Request(seq, owner, params) ==
  [kind |-> "drugs", seq |-> seq, owner |-> owner, params |-> params]
ConfigRequest == [kind |-> "config"]
CompaniesRequest == [kind |-> "companies"]

\* The trace after one more getDrugs call.
Issue(t, params, cause) ==
  [t EXCEPT !.issued = @ + 1, !.prev = t.last,
            !.last = [seq |-> t.issued + 1, params |-> params], !.cause = cause]

\* The dependency array of the second useEffect.
Deps(a) == <<a.selectedCompany, a.currentPage, a.initialLoadComplete>>

\* Mutant: the effect only asks for the configuration.
EffectLoadsConfigOnly(a) == a.tableConfig.loaded

\* The condition of the second useEffect.
EffectLoads(a) == a.initialLoadComplete /\ a.tableConfig.loaded

\* loadDrugs up to its await: setLoading(true), setError('').
LoadDrugsStart(a) == [a EXCEPT !.loading = TRUE, !.error = ""]

(* ------------------------------ the screen ---------------------------- *)

\* What stands in the place of the table: nothing without a configuration
\* (App), else DrugTable's spinner while loading, its "No drugs found" for
\* an empty list, and the rows with the pagination bar otherwise.
TableView(a) ==
  IF ~a.tableConfig.loaded THEN "none"
  ELSE IF a.loading THEN "spinner"
  ELSE IF a.drugs = << >> THEN "empty"
  ELSE "rows"

\* What App renders for a state: the splash while loading without a
\* configuration; else the alert when there is an error, the company filter
\* (disabled while loading, its Clear button also without a selection) and,
\* once there is a configuration, the table. The first-page and previous
\* buttons are off on page 0 of the pagination bar, the next button when
\* currentPage >= totalPages.
View(a) ==
  IF a.loading /\ ~a.tableConfig.loaded
  THEN [splash |-> TRUE, alert |-> "", filter |-> FALSE, options |-> << >>,
        filterDisabled |-> TRUE, clearDisabled |-> TRUE, table |-> "none",
        rows |-> << >>, previousDisabled |-> TRUE, nextDisabled |-> TRUE]
  ELSE [splash |-> FALSE, alert |-> a.error, filter |-> TRUE, options |-> a.companies,
        filterDisabled |-> a.loading,
        clearDisabled |-> a.loading \/ a.selectedCompany = S_empty,
        table |-> TableView(a),
        rows |-> IF TableView(a) = "rows" THEN a.drugs ELSE << >>,
        previousDisabled |-> a.currentPage - 1 = 0,
        nextDisabled |-> a.currentPage >= a.totalPages]

(* ------------------------------ the effects --------------------------- *)

\* The passive effects of the first commit. The first useEffect calls
\* loadInitialData unless the ref says it has been called: setLoading(true),
\* setError(''), and the two members of the Promise.all go out. The second
\* useEffect finds initialLoadComplete false and does nothing.
MountEffects ==
  /\ run.effects = "mount"
  /\ IF ~run.initialLoadRef
     THEN /\ run' = [run EXCEPT !.initialLoadRef = TRUE, !.effects = "none",
                                !.initial = "all"]
          /\ app' = [app EXCEPT !.loading = TRUE, !.error = ""]
          /\ net' = net \cup {ConfigRequest, CompaniesRequest}
          /\ trace' = [trace EXCEPT !.configCalls = @ + 1, !.companiesCalls = @ + 1]
     ELSE /\ run' = [run EXCEPT !.effects = "none"]
          /\ UNCHANGED <<app, net, trace>>
  /\ UNCHANGED server

\* The catch and the finally of loadInitialData.
InitialFailed ==
  /\ app' = [app EXCEPT !.error = "Failed to load initial data. Please try again.",
                        !.loading = FALSE]
  /\ run' = [run EXCEPT !.initial = "failed"]
  /\ UNCHANGED trace

\* loadInitialData once the Promise.all has resolved: setTableConfig,
\* setCompanies, and the first getDrugs call goes out.
InitialContinues(configData, companiesData) ==
  /\ app' = [app EXCEPT !.tableConfig = configData, !.companies = companiesData]
  /\ run' = [run EXCEPT !.initial = "drugs", !.config = configData,
                        !.companies = [settled |-> TRUE, value |-> companiesData]]
  /\ trace' = Issue(trace, InitialParams(configData), "initial")

\* getTableConfig() settles. The Promise.all resolves with the second member
\* that resolves and rejects with the first that rejects; what settles after
\* a rejection is dropped.
ReceiveConfig(answer) ==
  /\ ConfigRequest \in net
  /\ run.effects = "none"
  /\ IF run.initial # "all"
     THEN /\ net' = net \ {ConfigRequest}
          /\ UNCHANGED <<app, run, trace>>
     ELSE IF ~answer.ok
     THEN /\ net' = net \ {ConfigRequest}
          /\ InitialFailed
     ELSE IF run.companies.settled
     THEN /\ InitialContinues(answer.config, run.companies.value)
          /\ net' = (net \ {ConfigRequest})
                      \cup {Request(trace.issued + 1, "initial", InitialParams(answer.config))}
     ELSE /\ net' = net \ {ConfigRequest}
          /\ run' = [run EXCEPT !.config = answer.config]
          /\ UNCHANGED <<app, trace>>
  /\ UNCHANGED server

\* getCompanies() settles, with what the server answers or a rejection.
ReceiveCompanies ==
  /\ CompaniesRequest \in net
  /\ run.effects = "none"
  /\ \E answer \in CompaniesAnswers :
       IF run.initial # "all"
       THEN /\ net' = net \ {CompaniesRequest}
            /\ UNCHANGED <<app, run, trace>>
       ELSE IF ~answer.ok
       THEN /\ net' = net \ {CompaniesRequest}
            /\ InitialFailed
       ELSE IF run.config.loaded
       THEN /\ InitialContinues(run.config, answer.companies)
            /\ net' = (net \ {CompaniesRequest})
                        \cup {Request(trace.issued + 1, "initial", InitialParams(run.config))}
       ELSE /\ net' = net \ {CompaniesRequest}
            /\ run' = [run EXCEPT !.companies = [settled |-> TRUE, value |-> answer.companies]]
            /\ UNCHANGED <<app, trace>>
  /\ UNCHANGED server

\* The trace after a getDrugs call has settled.
Settled(t, request, answer) ==
  IF answer.ok
  THEN [t EXCEPT !.settled = [how |-> "ok", seq |-> request.seq],
                 !.applied = [seq |-> request.seq, params |-> request.params],
                 !.newest = IF request.seq > @ THEN request.seq ELSE @,
                 !.good = [drugs |-> answer.drugs,
                           totalPages |-> answer.pagination.totalPages,
                           totalCount |-> answer.pagination.totalCount]]
  ELSE [t EXCEPT !.settled = [how |-> "failed", seq |-> request.seq]]

\* The getDrugs call of loadInitialData settles: the rows and totals are
\* set, initialLoadComplete becomes true and loading false in one render,
\* whose passive effects (the second useEffect, a dependency has changed)
\* are flushed later. On a rejection the catch and the finally run.
ReceiveInitialDrugs ==
  /\ run.effects = "none"
  /\ \E request \in { r \in net : r.kind = "drugs" } :
       /\ request.owner = "initial"
       /\ net' = net \ {request}
       /\ \E answer \in ListAnswers(request.params) :
            /\ trace' = Settled(trace, request, answer)
            /\ IF answer.ok
               THEN /\ app' = [app EXCEPT !.drugs = answer.drugs,
                                          !.totalPages = answer.pagination.totalPages,
                                          !.totalCount = answer.pagination.totalCount,
                                          !.initialLoadComplete = TRUE,
                                          !.loading = FALSE]
                    /\ run' = [run EXCEPT !.initial = "done",
                                          !.effects = IF Deps(app') # Deps(app)
                                                      THEN "update" ELSE "none"]
               ELSE /\ app' = [app EXCEPT
                                 !.error = "Failed to load initial data. Please try again.",
                                 !.loading = FALSE]
                    /\ run' = [run EXCEPT !.initial = "failed"]
  /\ UNCHANGED server

\* Mutant: the catch of loadDrugs empties the table.
LoadDrugsFailedClears(a) ==
  [a EXCEPT !.error = "Failed to load drug data. Please try again.",
            !.drugs = << >>, !.totalPages = 1, !.totalCount = 0, !.loading = FALSE]

\* The catch and the finally of loadDrugs.
LoadDrugsFailed(a) ==
  [a EXCEPT !.error = "Failed to load drug data. Please try again.", !.loading = FALSE]

\* The rest of the try and the finally of loadDrugs.
LoadDrugsSucceeded(a, answer) ==
  [a EXCEPT !.drugs = answer.drugs,
            !.totalPages = answer.pagination.totalPages,
            !.totalCount = answer.pagination.totalCount,
            !.loading = FALSE]

\* A getDrugs call of loadDrugs settles, whichever call it is: nothing
\* compares it with the calls made since.
ReceiveDrugs ==
  /\ run.effects = "none"
  /\ \E request \in { r \in net : r.kind = "drugs" } :
       /\ request.owner = "load"
       /\ net' = net \ {request}
       /\ \E answer \in ListAnswers(request.params) :
            /\ app' = IF answer.ok THEN LoadDrugsSucceeded(app, answer)
                      ELSE LoadDrugsFailed(app)
            /\ trace' = Settled(trace, request, answer)
  /\ UNCHANGED run
  /\ UNCHANGED server

\* The passive effects of a render that no click caused are flushed after
\* the browser has painted: the second useEffect calls loadDrugs with the
\* values of that render.
UpdateEffects ==
  /\ run.effects = "update"
  /\ run' = [run EXCEPT !.effects = "none"]
  /\ IF EffectLoads(app)
     THEN /\ trace.issued < MaxRequests
          /\ app' = LoadDrugsStart(app)
          /\ net' = net \cup {Request(trace.issued + 1, "load", LoadParams(app))}
          /\ trace' = Issue(trace, LoadParams(app), "effect")
     ELSE UNCHANGED <<app, net, trace>>
  /\ UNCHANGED server

(* ----------------------------- the user ------------------------------- *)

\* A click: the handler's setState calls give `next`. Before React renders
\* them it flushes the passive effects of the last commit, which run with
\* that commit's values; the render the click caused is committed, and its
\* own passive effects run at once. `event` is what the trace keeps of the
\* click.
Click(next, event) ==
  LET early == run.effects = "update" /\ EffectLoads(app)
      t1 == IF early THEN Issue(trace, LoadParams(app), "effect") ELSE trace
      n1 == IF early THEN net \cup {Request(t1.issued, "load", LoadParams(app))} ELSE net
      a1 == IF early THEN LoadDrugsStart(next) ELSE next
      loads == Deps(a1) # Deps(app) /\ EffectLoads(a1)
      t2 == IF loads THEN Issue(t1, LoadParams(a1), event.kind) ELSE t1
      n2 == IF loads THEN n1 \cup {Request(t2.issued, "load", LoadParams(a1))} ELSE n1
      a2 == IF loads THEN LoadDrugsStart(a1) ELSE a1
  IN /\ t2.issued <= MaxRequests
     /\ app' = a2
     /\ net' = n2
     /\ trace' = [t2 EXCEPT !.event = event, !.settled = [how |-> "none", seq |-> 0],
                            !.cleared = IF early \/ loads THEN app.error ELSE @]
     /\ run' = [run EXCEPT !.effects = "none"]
     /\ UNCHANGED server

\* Mutant: the page is not reset.
HandleCompanyFilterKeepsPage(a, company) == [a EXCEPT !.selectedCompany = company]

\* handleCompanyFilter.
HandleCompanyFilter(a, company) == [a EXCEPT !.selectedCompany = company, !.currentPage = 1]

\* handlePageChange.
HandlePageChange(a, newPage) == [a EXCEPT !.currentPage = newPage]

\* What the trace keeps of a click: which handler, called from which
\* control with what, and the selection and page it found.
Event(kind, via, value) ==
  [kind |-> kind, via |-> via, value |-> value,
   company |-> app.selectedCompany, page |-> app.currentPage]

\* An entry of the company dropdown is chosen: "All Companies" (the empty
\* value) or one of the companies.
SelectCompany(company) ==
  /\ View(app).filter
  /\ ~View(app).filterDisabled
  /\ company = S_empty \/ \E i \in 1..Len(View(app).options) : View(app).options[i] = company
  /\ Click(HandleCompanyFilter(app, company), Event("filter", "dropdown", company))

\* The Clear button: handleClear calls onFilterChange('').
ClearFilter ==
  /\ View(app).filter
  /\ ~View(app).clearDisabled
  /\ Click(HandleCompanyFilter(app, S_empty), Event("filter", "clear", S_empty))

\* The company chip of a row.
ClickCompany(company) ==
  /\ \E i \in 1..Len(View(app).rows) : View(app).rows[i].company = company
  /\ Click(HandleCompanyFilter(app, company), Event("filter", "chip", company))

\* A button of the pagination bar, which counts pages from 0:
\* handleChangePage passes newPage + 1 on.
ChangePage(button) ==
  /\ View(app).table = "rows"
  /\ button \in {"first", "previous"} => ~View(app).previousDisabled
  /\ button = "next" => ~View(app).nextDisabled
  /\ LET page == app.currentPage - 1
         newPage == CASE button = "first" -> 0
                      [] button = "previous" -> page - 1
                      [] button = "next" -> page + 1
     IN Click(HandlePageChange(app, newPage + 1), Event("page", button, newPage + 1))

\* The store the client's server was seeded with.
SeedBatch ==
  CHOOSE docs \in [1..3 -> Catalogue] :
    /\ docs[1].code = <<49>>
    /\ docs[2].code = <<50>>
    /\ docs[3].code = <<51>>

ClientInit ==
  /\ backend = "file"
  /\ data \in {<< >>, FileStamp(SeedBatch, 0)}
  /\ clock = 0
  /\ oid = 0
  /\ res = NoResponse
  /\ app = AppInitial
  /\ run = RunInitial
  /\ net = {}
  /\ trace = TraceInitial

ClientNext ==
  \/ MountEffects
  \/ UpdateEffects
  \/ \E answer \in ConfigAnswers : ReceiveConfig(answer)
  \/ ReceiveCompanies
  \/ ReceiveInitialDrugs
  \/ ReceiveDrugs
  \/ \E company \in {S_empty, S_ab, S_B} : SelectCompany(company)
  \/ ClearFilter
  \/ \E company \in {S_ab, S_B} : ClickCompany(company)
  \/ \E button \in {"first", "previous", "next"} : ChangePage(button)

ClientSpec == ClientInit /\ [][ClientNext]_vars

(* ------------------ the two list handlers side by side ---------------- *)

\* One query is answered by the file-backed and by the database-backed
\* list handler over the records the store holds.
BothGetDrugs(r) ==
  /\ Idle
  /\ \E file \in FileListAnswers(r), mongo \in MongoListAnswers(r) :
       res' = [kind |-> "both", status |-> 200, file |-> file, mongo |-> mongo]
  /\ UNCHANGED <<backend, data, clock, oid, client>>

\* The store is filled and emptied as either server's store is, and list
\* requests are answered by both handlers.
BothNext ==
  \/ ResponseSent
  \/ \E docs \in Batches, now \in Times : FileInsertMany(docs, now)
  \/ FileDeleteMany
  \/ \E docs \in Batches : MongoInsertMany(docs)
  \/ MongoDeleteMany
  \/ \E r \in ListRequests : BothGetDrugs(r)

BothSpec == Init /\ [][BothNext]_vars

(* ----------------------- the endpoints, one store --------------------- *)

\* The documents the file-backed store may be handed: those of the
\* catalogue and one whose company is a single blank.
WideCatalogue == Catalogue \cup { Doc(<<52>>, S_A, S_A, S_space, T_16_00_Z) }
WideBatches == UNION { [1..k -> WideCatalogue] : k \in BatchSizes }

\* GET /api/drugs?company=c, everything else left to its default.
CompanyQuery(c) ==
  [company |-> Given(c), page |-> Absent, limit |-> Absent,
   sortBy |-> "launchDate", sortOrder |-> "desc"]

\* The file-backed server answers, one after the other and with nothing
\* written in between, GET /api/companies, GET /api/companies/stats,
\* GET /health and, for every company of the first answer, GET /api/drugs
\* with that company.
FileGetAll(now) ==
  /\ backend = "file"
  /\ Idle
  /\ now >= clock
  /\ \E sortedCompanies \in ArraySort(Distinct, [cmp |-> "companies", stable |-> TRUE]),
        stats \in ArraySort(CompanyStats(Len(data)), [cmp |-> "stats", stable |-> TRUE]) :
       LET names == { sortedCompanies[i] : i \in 1..Len(sortedCompanies) }
       IN \E lists \in [names -> UNION { FileListAnswers(CompanyQuery(c)) : c \in names }] :
            /\ \A c \in names : lists[c] \in FileListAnswers(CompanyQuery(c))
            /\ res' = [kind |-> "all", status |-> 200,
                       companies |-> CompaniesResponse(sortedCompanies).companies,
                       companyStats |-> StatsResponse(stats).companyStats,
                       health |-> HealthStats(now),
                       lists |-> lists]
  /\ clock' = now
  /\ UNCHANGED <<backend, data, oid, client>>

AllInit == Init /\ backend = "file"

AllNext ==
  \/ ResponseSent
  \/ \E docs \in WideBatches, now \in Times : FileInsertMany(docs, now)
  \/ FileDeleteMany
  \/ \E now \in Times : FileGetAll(now)

AllSpec == AllInit /\ [][AllNext]_vars

(* ------------------------- the sortable columns ---------------------- *)

\* tableConfig.columns of GET /api/config: the key of each column and
\* whether it is announced as sortable.
TableColumns ==
  << [key |-> "sequentialId", sortable |-> FALSE],
     [key |-> "code", sortable |-> TRUE],
     [key |-> "displayName", sortable |-> TRUE],
     [key |-> "company", sortable |-> TRUE],
     [key |-> "launchDate", sortable |-> TRUE] >>

SortableKeys ==
  { TableColumns[i].key : i \in { j \in 1..Len(TableColumns) : TableColumns[j].sortable } }

\* The list requests a click on the header of a sortable column stands for.
ColumnRequests ==
  [company : {Absent}, page : {Absent}, limit : {Absent},
   sortBy : SortableKeys, sortOrder : SortOrders]

ColumnNext ==
  \/ ResponseSent
  \/ \E docs \in Batches, now \in Times : FileInsertMany(docs, now)
  \/ FileDeleteMany
  \/ \E docs \in Batches : MongoInsertMany(docs)
  \/ MongoDeleteMany
  \/ \E r \in ColumnRequests : FileGetDrugs(r)
  \/ \E r \in ColumnRequests : MongoGetDrugs(r)

ColumnSpec == Init /\ [][ColumnNext]_vars

(* ------------------------------- claims ------------------------------- *)

IsList == res.kind = "list"

\* The number of places of seq that hold x.
CountIn(seq, x) == Cardinality({ i \in 1..Len(seq) : seq[i] = x })

\* The records of seq, with how often each occurs, are those of the other.
SameRecords(seq, other) ==
  /\ Len(seq) = Len(other)
  /\ \A i \in 1..Len(other) : CountIn(seq, other[i]) = CountIn(other, other[i])

\* A string that holds something besides blanks.
NonBlank(s) == \E i \in 1..Len(s) : s[i] # 32

\* The stored fields of a returned record are those of the stored record.
SameStoredFields(returned, stored) ==
  /\ DOMAIN stored \subseteq DOMAIN returned
  /\ \A k \in DOMAIN stored : returned[k] = stored[k]

\* C1: the i-th record (0-based) of a page of GET /api/drugs carries
\* sequentialId = (P-1)*S + i + 1, for page P and limit S.
C1_SequentialIds ==
  IsList =>
    \A i \in 1..Len(res.drugs) :
      res.drugs[i].sequentialId = (res.req.page - 1) * res.req.limit + (i - 1) + 1

\* C1 witness: a second page of size 2 that holds the third record.
C1_Witness ==
  /\ IsList
  /\ res.req.page = 2 /\ res.req.limit = 2
  /\ Len(res.drugs) = 1
  /\ res.drugs[1].sequentialId = 3

\* C2: with a company parameter that is not blank the result set is exactly
\* the store's records whose company equals the parameter and totalCount
\* counts them; with the parameter absent, empty or blank every record of
\* the store is in the result set and totalCount is the store's size.
C2_CompanyFilter ==
  IsList =>
    LET c == res.req.company
        matching == IF c.present /\ NonBlank(c.value)
                    THEN SelectSeq(data, LAMBDA d : d.company = c.value)
                    ELSE data
    IN /\ SameRecords(res.sorted, matching)
       /\ res.pagination.totalCount = Len(matching)

\* C2 witness: a filter that keeps two of three records, leaving out the
\* record of another company.
C2_Witness ==
  /\ IsList
  /\ res.req.company = Given(S_ab)
  /\ Len(data) = 3
  /\ res.pagination.totalCount = 2
  /\ \E i \in 1..Len(data) : data[i].company = S_B

\* C2 witness of the other half: a blank parameter filters nothing.
C2_WitnessBlank ==
  /\ IsList
  /\ res.req.company = Given(S_space)
  /\ res.pagination.totalCount = 3

\* C3: totalPages = ceil(totalCount / limit), hasNextPage = (currentPage <
\* totalPages), hasPrevPage = (currentPage > 1), currentPage = the page asked
\* for, in the file-backed and in the database-backed handler.
C3_Envelope ==
  IsList =>
    LET pg == res.pagination
        S == res.req.limit
    IN /\ pg.currentPage = res.req.page
       /\ pg.totalCount >= 0
       /\ pg.totalPages >= 0
       /\ pg.totalPages * S >= pg.totalCount
       /\ pg.totalPages > 0 => (pg.totalPages - 1) * S < pg.totalCount
       /\ pg.hasNextPage = (pg.currentPage < pg.totalPages)
       /\ pg.hasPrevPage = (pg.currentPage > 1)

\* C3 witness: the last, partly filled page of two (file-backed).
C3_Witness ==
  /\ IsList
  /\ backend = "file"
  /\ res.pagination.totalCount = 3 /\ res.req.limit = 2
  /\ res.pagination.currentPage = 2 /\ res.pagination.totalPages = 2
  /\ ~res.pagination.hasNextPage

\* C3 witness for the database-backed handler: a middle page.
C3_WitnessMongo ==
  /\ IsList
  /\ backend = "mongo"
  /\ res.pagination.currentPage = 2 /\ res.pagination.totalPages = 3
  /\ res.pagination.hasNextPage /\ res.pagination.hasPrevPage

\* The page holds ranks (P-1)*S+1 .. min(P*S, totalCount) of the sorted list.
PageIsRanks ==
  LET lo == (res.req.page - 1) * res.req.limit + 1
      hi == Min(res.req.page * res.req.limit, Len(res.sorted))
  IN /\ Len(res.drugs) = Max(0, hi - lo + 1)
     /\ \A i \in 1..Len(res.drugs) : SameStoredFields(res.drugs[i], res.sorted[lo + i - 1])

\* The envelope carries the true totals of the filtered set.
TrueTotals ==
  LET c == res.req.company
      n == IF c.present /\ NonBlank(c.value)
           THEN Cardinality({ i \in 1..Len(data) : data[i].company = c.value })
           ELSE Len(data)
  IN /\ res.pagination.totalCount = n
     /\ res.pagination.totalPages * res.req.limit >= n
     /\ res.pagination.totalPages > 0 => (res.pagination.totalPages - 1) * res.req.limit < n

\* C4 as stated: the page holds ranks (P-1)*S+1 .. min(P*S, totalCount); a
\* page with P > totalPages is empty, with the true totals, hasNextPage =
\* false and hasPrevPage = true.
C4_Original ==
  IsList =>
    /\ PageIsRanks
    /\ res.req.page > res.pagination.totalPages =>
         /\ res.drugs = << >>
         /\ TrueTotals
         /\ ~res.pagination.hasNextPage
         /\ res.pagination.hasPrevPage

\* C4 amended: as stated, except that hasPrevPage = true holds for P > 1:
\* page 1 of an empty result set has P > totalPages = 0 and hasPrevPage =
\* false.
C4_PageSlice ==
  IsList =>
    /\ PageIsRanks
    /\ res.req.page > res.pagination.totalPages =>
         /\ res.drugs = << >>
         /\ TrueTotals
         /\ ~res.pagination.hasNextPage
         /\ res.pagination.hasPrevPage = (res.req.page > 1)

\* C4 witness: page 3 of a two-page result.
C4_Witness ==
  /\ IsList
  /\ res.req.page = 3
  /\ res.pagination.totalPages = 2 /\ res.pagination.totalCount = 3
  /\ res.drugs = << >>
  /\ res.pagination.hasPrevPage

\* C5: under sortBy = launchDate every two consecutive records of the sorted
\* list are ordered by launch instant: non-increasing for desc,
\* non-decreasing for asc.
C5_SortByInstant ==
  IsList /\ res.req.sortBy = "launchDate" =>
    \A i \in 1..(Len(res.sorted) - 1) :
      LET earlier == res.sorted[i].launchDate
          later == res.sorted[i + 1].launchDate
      IN IF res.req.sortOrder = "desc"
         THEN earlier.day * 24 + earlier.hour - earlier.off
                >= later.day * 24 + later.hour - later.off
         ELSE earlier.day * 24 + earlier.hour - earlier.off
                <= later.day * 24 + later.hour - later.off

\* C5 witness: descending, the record dated the 14th (23:00Z) comes before
\* the one dated the 15th (01:00+03:00), whose text sorts after it.
C5_Witness ==
  /\ IsList
  /\ res.req.sortBy = "launchDate" /\ res.req.sortOrder = "desc"
  /\ Len(res.sorted) >= 2
  /\ \E i \in 1..(Len(res.sorted) - 1) :
       /\ res.sorted[i].launchDate = T_14_23_Z
       /\ res.sorted[i + 1].launchDate = T_15_01_P3

\* A string with its capital letters made small.
Lower(s) == [i \in 1..Len(s) |-> IF s[i] >= 65 /\ s[i] <= 90 THEN s[i] + 32 ELSE s[i]]

\* C6: the list of GET /api/companies holds no string twice and no element
\* compares greater than the one that follows it when letter case is ignored.
C6_CompaniesSorted ==
  res.kind = "companies" =>
    /\ \A i, j \in 1..Len(res.companies) : i # j => res.companies[i] # res.companies[j]
    /\ \A i \in 1..(Len(res.companies) - 1) :
         ~StrGT(Lower(res.companies[i]), Lower(res.companies[i + 1]))

\* C6 witness: "ab" is listed once, before "B", from a store that holds "B"
\* first and "ab" twice.
C6_Witness ==
  /\ res.kind = "companies"
  /\ res.companies = <<S_ab, S_B>>
  /\ Len(data) = 3
  /\ data[1].company = S_B

\* The launch instants of the store's records of a company.
InstantsOf(company) ==
  { NewDate(data[i].launchDate) : i \in { k \in 1..Len(data) : data[k].company = company } }

Stored(id) == \E i \in 1..Len(data) : data[i]._id = id

\* The body is a stored record of that id with id and displayName added.
IsDrugBody(body, id) ==
  \E i \in 1..Len(data) :
    /\ data[i]._id = id
    /\ SameStoredFields(body, data[i])
    /\ body.id = id
    /\ body.displayName = data[i].genericName \o <<32, 40>> \o data[i].brandName \o <<41>>

C8_Witness ==
  /\ res.kind = "drug"
  /\ backend = "mongo"
  /\ res.status = 200
  /\ Len(data) >= 2
  /\ res.body.id = data[2]._id
  /\ res.body.displayName = data[2].genericName \o <<32, 40>> \o data[2].brandName \o <<41>>

CodeCount(seq, code) == Cardinality({ i \in 1..Len(seq) : seq[i].code = code })

\* C9: a POST with a code the store does not hold creates the record, and
\* page 1 by code ascending then shows the code exactly once; a POST with a
\* code the store holds is answered 400 {error: "Drug code already exists"}
\* and leaves the store as it was.
C9_CreateRoundTrip ==
  /\ res.kind = "post" =>
       IF CodeCount(res.before, res.req.code) = 0
       THEN res.status = 201 /\ CodeCount(data, res.req.code) = 1
       ELSE /\ res.status = 400
            /\ res.body = [error |-> "Drug code already exists"]
            /\ data = res.before
  /\ ( /\ IsList
       /\ res.req.page = 1 /\ res.req.sortBy = "code" /\ res.req.sortOrder = "asc"
       /\ ~res.req.company.present /\ res.req.limit >= Len(data) ) =>
       \A i \in 1..Len(data) :
         CodeCount(res.drugs, data[i].code) = CodeCount(data, data[i].code)

\* C9 on the database-backed server alone, where it holds.
C9_MongoRoundTrip == backend = "mongo" => C9_CreateRoundTrip

\* C10: no two stored records have the same code.
C10_UniqueCodes ==
  \A i, j \in 1..Len(data) : i # j => data[i].code # data[j].code

\* C10 on the database-backed store alone, where it holds.
C10_MongoUniqueCodes == backend = "mongo" => C10_UniqueCodes

\* C11: when the store throws while GET /api/drugs is served, at whichever
\* store call, the response is 500 and its body is exactly
\* {error: "Failed to fetch drugs"}: no drugs, no pagination, nothing of
\* what the store threw.
C11_StoreFault ==
  res.kind = "fault" =>
    /\ res.status = 500
    /\ res.body = [error |-> "Failed to fetch drugs"]

\* C11 witness: the count threw after find() had answered with records, on
\* a request that names a company.
C11_Witness ==
  /\ res.kind = "fault"
  /\ res.at = "countDocuments"
  /\ res.company = Given(S_ab)
  /\ Find(BuildFilter(res.company)) # << >>

\* The responses of the read endpoints.
ReadKinds == {"list", "fault", "drug", "companies", "stats", "health"}

\* C12: serving GET /api/drugs, GET /api/drugs/:id, GET /api/companies,
\* GET /api/companies/stats or GET /health leaves the store as it was: the
\* same records, in the same order, with the same fields.
C12_ReadOnly == [][(Idle /\ res'.kind \in ReadKinds) => data' = data]_vars

\* C12 witness: a list was served that is ordered differently from the
\* store it was read from, and carries fields the stored records lack.
C12_Witness ==
  /\ res.kind = "list"
  /\ backend = "file"
  /\ ~res.req.company.present
  /\ Len(data) = 3
  /\ res.sorted # data
  /\ Len(res.drugs) = 3
  /\ \A i \in 1..3 : DOMAIN res.drugs[i] # DOMAIN data[i]

(* --------------------------- claims: the client ----------------------- *)

\* The company parameter a selection is sent as.
CompanyParam(company) == IF company = S_empty THEN Absent ELSE Given(company)

\* The first getDrugs call has settled well and nothing has happened since.
JustLoaded == run.initial = "done" /\ run.effects = "update"

\* C13: on mount getTableConfig and getCompanies are each called exactly
\* once, in the same step; the first getDrugs call is made only when both
\* have resolved and asks for page 1, limit = the configuration's
\* defaultPageSize, sortBy launchDate, sortOrder desc and no company; when
\* it succeeds the client is not loading, has no error and holds that
\* response's rows and totals.
C13_InitialLoad ==
  /\ trace.configCalls = trace.companiesCalls
  /\ trace.configCalls = (IF run.initialLoadRef THEN 1 ELSE 0)
  /\ trace.issued >= 1 => run.config.loaded /\ run.companies.settled
  /\ trace.issued = 1 =>
       trace.last.params = [company |-> Absent, page |-> 1,
                            limit |-> run.config.pagination.defaultPageSize,
                            sortBy |-> "launchDate", sortOrder |-> "desc"]
  /\ JustLoaded =>
       /\ ~app.loading
       /\ app.error = ""
       /\ trace.applied.seq = 1
       /\ app.drugs = trace.good.drugs
       /\ app.totalPages = trace.good.totalPages
       /\ app.totalCount = trace.good.totalCount
       /\ app.tableConfig = run.config
       /\ app.companies = run.companies.value
       /\ View(app).table = (IF app.drugs = << >> THEN "empty" ELSE "rows")

\* C13 witness: the first page of a seeded store has just been loaded with
\* page size 2.
C13_Witness ==
  /\ JustLoaded
  /\ trace.issued = 1
  /\ trace.last.params.limit = 2
  /\ Len(app.drugs) = 2
  /\ app.totalPages = 2
  /\ app.totalCount = 3
  /\ View(app).rows = app.drugs

\* C14: when one of the three initial fetches fails the client shows
\* 'Failed to load initial data. Please try again.' and renders neither the
\* company filter nor the table from what did load.
C14_NoPartialRendering ==
  run.initial = "failed" =>
    /\ View(app).alert = "Failed to load initial data. Please try again."
    /\ View(app).options = << >>
    /\ View(app).table = "none"

\* C15: a change of the company filter, by the dropdown, a chip or Clear,
\* from whatever page, leaves the client on page 1 with the new selection,
\* and the getDrugs call it causes asks for page 1 and that company (no
\* company parameter for the empty selection).
C15_FilterResetsPage ==
  trace.event.kind = "filter" =>
    /\ app.currentPage = 1
    /\ app.selectedCompany = trace.event.value
    /\ trace.cause = "filter" =>
         /\ trace.last.params.page = 1
         /\ trace.last.params.company = CompanyParam(trace.event.value)
    /\ (app.initialLoadComplete
          /\ (trace.event.company # trace.event.value \/ trace.event.page # 1))
         => trace.cause = "filter"

\* C15 witness: the filter was changed on page 3 and the call it caused
\* asks for page 1 of the chosen company.
C15_Witness ==
  /\ trace.event.kind = "filter"
  /\ trace.event.via = "chip"
  /\ trace.event.page = 3
  /\ trace.event.value = S_ab
  /\ trace.cause = "filter"
  /\ trace.prev.params.page = 3
  /\ trace.last.params.page = 1

\* C16: a page change leaves the selected company as it was, and the
\* getDrugs call it causes asks for the new page with the selected company,
\* which is the company of the call before it, and with that call's limit,
\* sortBy and sortOrder.
C16_PageChangeKeepsFilter ==
  trace.event.kind = "page" =>
    /\ app.selectedCompany = trace.event.company
    /\ app.currentPage = trace.event.value
    /\ trace.cause = "page" =>
         /\ trace.last.params.page = trace.event.value
         /\ trace.last.params.company = CompanyParam(trace.event.company)
         /\ trace.last.params.company = trace.prev.params.company
         /\ trace.last.params.limit = trace.prev.params.limit
         /\ trace.last.params.sortBy = trace.prev.params.sortBy
         /\ trace.last.params.sortOrder = trace.prev.params.sortOrder
    /\ trace.event.page # trace.event.value => trace.cause = "page"

\* C16 witness: the next button was used under a company filter.
C16_Witness ==
  /\ trace.event.kind = "page"
  /\ trace.event.via = "next"
  /\ trace.event.company = S_ab
  /\ trace.event.value = 2
  /\ trace.cause = "page"
  /\ trace.last.params.company = Given(S_ab)
  /\ trace.last.params.page = 2

\* The last thing that happened is that the latest getDrugs call, one of
\* loadDrugs, was rejected.
RefetchFailed ==
  /\ run.initial = "done"
  /\ trace.settled = [how |-> "failed", seq |-> trace.last.seq]

\* C17: when a getDrugs call of loadDrugs fails the client shows 'Failed to
\* load drug data. Please try again.' and the rows, totalPages and
\* totalCount it holds are those of the last successful response.
C17_FailureKeepsData ==
  RefetchFailed =>
    /\ View(app).alert = "Failed to load drug data. Please try again."
    /\ app.drugs = trace.good.drugs
    /\ app.totalPages = trace.good.totalPages
    /\ app.totalCount = trace.good.totalCount

\* C17 witness: the call caused by a click failed while rows were held.
C17_Witness ==
  /\ RefetchFailed
  /\ trace.event.kind \in {"filter", "page"}
  /\ trace.cause = trace.event.kind
  /\ net = {}
  /\ app.drugs # << >>
  /\ View(app).rows = trace.good.drugs

\* C18: when the getDrugs call caused by a filter change fails, the
\* selected company and the current page are those of the call whose
\* response the rows on the screen came from.
C18_SelectionIntact ==
  (RefetchFailed /\ trace.event.kind = "filter" /\ trace.cause = "filter") =>
    /\ CompanyParam(app.selectedCompany) = trace.applied.params.company
    /\ app.currentPage = trace.applied.params.page

\* C19: the response to an earlier getDrugs call never replaces what the
\* response to a later call has set: the rows and totals on the screen come
\* from the latest call answered so far.
C19_NoStaleOverwrite == trace.applied.seq = trace.newest

\* A getDrugs call caused by a filter or page change is on the wire.
Filtering ==
  /\ app.initialLoadComplete
  /\ app.loading
  /\ trace.cause \in {"filter", "page"}
  /\ \E request \in net : request.kind = "drugs" /\ request.seq = trace.last.seq

\* C20: while a getDrugs call caused by a filter or page change is on the
\* wire, the rows rendered before the change are still on the screen.
C20_RowsStayVisible ==
  Filtering => View(app).rows = app.drugs

\* C21: after the first getDrugs call, every getDrugs call is caused by a
\* click that changed the selected company or the page and asks for another
\* company or page than the call before it; as long as the user has done
\* nothing, one getDrugs call has been made at most.
C21_RefetchOnlyOnChange ==
  /\ trace.issued >= 2 =>
       /\ trace.cause \in {"filter", "page"}
       /\ \/ trace.last.params.company # trace.prev.params.company
          \/ trace.last.params.page # trace.prev.params.page
  /\ trace.event = NoEvent => trace.issued <= 1

\* The message of the catch of loadDrugs.
LoadError == "Failed to load drug data. Please try again."

\* C24, first half: once the latest getDrugs call has failed, the message
\* stays for as long as no getDrugs call is made, and a getDrugs call is
\* made only by a click that changes the company or the page; its start
\* takes the message away.
C24_ErrorStaysUntilChange ==
  [][ RefetchFailed =>
        /\ trace'.issued = trace.issued => app'.error = LoadError
        /\ trace'.issued > trace.issued =>
             /\ trace'.cause \in {"filter", "page"}
             /\ app'.error = ""
             /\ app'.loading ]_vars

\* C24: a getDrugs call that a click made while the message of a failed
\* re-fetch was shown, and that has succeeded as the last thing that
\* happened, leaves the client not loading, without a message and with the
\* rows of the selected company and current page.
C24_RecoversToReady ==
  ( /\ trace.cleared = LoadError
    /\ trace.cause \in {"filter", "page"}
    /\ trace.settled = [how |-> "ok", seq |-> trace.last.seq] ) =>
    /\ ~app.loading
    /\ app.error = ""
    /\ trace.applied.params = LoadParams(app)
    /\ app.drugs = trace.good.drugs

\* The getDrugs calls on the wire.
InFlight == { request \in net : request.kind = "drugs" }

\* C25: at most one getDrugs call is on the wire, and while one is the
\* client is loading: the dropdown and the Clear button are disabled and
\* the spinner stands in the place of the table, so that no chip and no
\* pagination button is on the screen.
C25_OneInFlight ==
  /\ Cardinality(InFlight) <= 1
  /\ InFlight # {} =>
       /\ app.loading
       /\ View(app).filterDisabled
       /\ View(app).clearDisabled
       /\ View(app).table \in {"none", "spinner"}
       /\ View(app).rows = << >>

\* totalPages of the records a getDrugs call selects, in the store as it is.
PagesOf(params) ==
  TotalPages(Len(Find(BuildFilter(ToQuery(params).company))), params.limit)

\* A getDrugs call asks for a page of the result set (page 1 of an empty one).
PageInRange(request) ==
  request.seq >= 1 =>
    /\ request.params.page >= 1
    /\ request.params.page <= Max(1, PagesOf(request.params))

\* C26: every getDrugs call asks for a page between 1 and the number of
\* pages of the records its company filter selects, and when the client is
\* at rest without a message its current page is no greater than the
\* number of pages it holds, which is that of the selected company.
C26_PageInRange ==
  /\ PageInRange(trace.last)
  /\ PageInRange(trace.prev)
  /\ (app.initialLoadComplete /\ ~app.loading /\ app.error = "" /\ InFlight = {}) =>
       /\ app.currentPage <= Max(1, app.totalPages)
       /\ app.currentPage <= Max(1, PagesOf(LoadParams(app)))

\* The message of the catch of loadInitialData.
InitialError == "Failed to load initial data. Please try again."

\* C27: once loadInitialData has failed it has failed for good:
\* initialLoadComplete is and stays false, no getDrugs call is on the wire
\* and none is made whatever the user does, and the message stays, so that
\* the client is never without an error again.
C27_FailedLoadAbsorbing ==
  /\ [](run.initial = "failed" =>
         /\ ~app.initialLoadComplete
         /\ ~app.loading
         /\ app.error = InitialError
         /\ InFlight = {})
  /\ [][run.initial = "failed" =>
         /\ run'.initial = "failed"
         /\ trace'.issued = trace.issued]_vars

\* C27 witness: the first getDrugs call failed, and afterwards the user
\* chose a company in the dropdown, which the loaded directory had filled.
C27_Witness ==
  /\ run.initial = "failed"
  /\ trace.issued = 1
  /\ trace.event.kind = "filter"
  /\ app.selectedCompany = S_B
  /\ trace.event.company = S_empty

(* --------------------- claims: the server, continued ------------------ *)

\* The value a record is sorted by: the launch instant, or the text of the
\* field.
SortKey(record, sortBy) ==
  IF sortBy = "launchDate"
  THEN record.launchDate.day * 24 + record.launchDate.hour - record.launchDate.off
  ELSE <<record[sortBy]>>

\* C22: in the sorted list of a GET /api/drugs response, the records that
\* share a sort key stand in the order in which the store holds them,
\* whatever the sort field and order.
C22_StableTies ==
  IsList =>
    \A i \in 1..Len(res.sorted) :
      LET key == SortKey(res.sorted[i], res.req.sortBy)
          SameKey(record) == SortKey(record, res.req.sortBy) = key
      IN SelectSeq(res.sorted, SameKey) = SelectSeq(Find(BuildFilter(res.req.company)), SameKey)

\* No two records of the list have the same sort key.
DistinctKeys(list, sortBy) ==
  \A i, j \in 1..Len(list) : i # j => SortKey(list[i], sortBy) # SortKey(list[j], sortBy)

\* The codes, and the sequentialIds, of a page in its order.
Codes(drugs) == [i \in 1..Len(drugs) |-> drugs[i].code]
SequentialIds(drugs) == [i \in 1..Len(drugs) |-> drugs[i].sequentialId]

\* C23: when both list handlers answer the same query over the same
\* records, and the records the filter selects have pairwise distinct sort
\* keys, the two pages hold the same codes in the same order with the same
\* sequentialIds, and the two pagination envelopes are equal.
C23_SameContract ==
  ( /\ res.kind = "both"
    /\ DistinctKeys(Find(BuildFilter(res.file.req.company)), res.file.req.sortBy) ) =>
    /\ Codes(res.file.drugs) = Codes(res.mongo.drugs)
    /\ SequentialIds(res.file.drugs) = SequentialIds(res.mongo.drugs)
    /\ res.file.pagination = res.mongo.pagination

\* C23 witness: the second page of two records each, of three records
\* sorted by launch date, and a list of three sorted by code.
C23_Witness ==
  /\ res.kind = "both"
  /\ DistinctKeys(Find(BuildFilter(res.file.req.company)), res.file.req.sortBy)
  /\ res.file.req.page = 2 /\ res.file.req.limit = 2
  /\ Len(res.file.sorted) = 3
  /\ Len(res.mongo.drugs) = 1
  /\ res.file.sorted # data

\* The company values the stored records carry.
StoredCompanies == { data[i].company : i \in 1..Len(data) }

\* The sum of the drugCounts of the first n entries.
RECURSIVE SumCounts(_, _)
SumCounts(stats, n) == IF n = 0 THEN 0 ELSE SumCounts(stats, n - 1) + stats[n].drugCount

\* GET /api/drugs?company=c returned records of c only, at least one, and
\* as many as the statistics count for c.
ListAgrees(c) ==
  /\ \A i \in 1..Len(res.lists[c].drugs) : res.lists[c].drugs[i].company = c
  /\ res.lists[c].pagination.totalCount >= 1
  /\ \E i \in 1..Len(res.companyStats) :
       /\ res.companyStats[i]._id = c
       /\ res.companyStats[i].drugCount = res.lists[c].pagination.totalCount

\* What C28 says besides the lists: the companies listed are the company
\* values of the stored records, the drugCounts add up to totalDrugs of
\* /health, and uniqueCompanies is the length of the company list.
DirectoryAgrees ==
  /\ { res.companies[i] : i \in 1..Len(res.companies) } = StoredCompanies
  /\ SumCounts(res.companyStats, Len(res.companyStats)) = res.health.totalDrugs
  /\ res.health.totalDrugs = Len(data)
  /\ res.health.uniqueCompanies = Len(res.companies)

ShownAfter(first, second, key) ==
  IF key = "launchDate"
  THEN SortKey(first, key) > SortKey(second, key)
  ELSE StrGT(first[key], second[key])

\* The rows are in the order asked for, by the values the column shows.
OrderedBy(drugs, key, sortOrder) ==
  \A i \in 1..(Len(drugs) - 1) :
    IF sortOrder = "desc"
    THEN ~ShownAfter(drugs[i + 1], drugs[i], key)
    ELSE ~ShownAfter(drugs[i], drugs[i + 1], key)

\* C29: a list asked for with sortBy set to the key of a column that the
\* configuration announces as sortable has its rows ordered by the value
\* shown in that column, in the direction asked for.
C29_SortableColumns ==
  (IsList /\ res.req.sortBy \in SortableKeys) =>
    OrderedBy(res.drugs, res.req.sortBy, res.req.sortOrder)

\* C29 for the columns whose key is a stored field.
C29_StoredColumns ==
  (IsList /\ res.req.sortBy \in SortableKeys \ {"displayName"}) =>
    OrderedBy(res.drugs, res.req.sortBy, res.req.sortOrder)

\* C30: in the file-backed store no two records have the same _id, so that
\* an id names one record at most.
C30_UniqueIds ==
  backend = "file" =>
    \A i, j \in 1..Len(data) : i # j => data[i]._id # data[j]._id

====
